---- MODULE Spec2Model ----
(***************************************************************************)
(* Real Estate Deal Analyzer (src/realestana.py): the four calculators and *)
(* the three button handlers of main().                                    *)
(*                                                                         *)
(* Numbers are Python floats.  They are modelled as IEEE-754 binary64      *)
(* values with round-to-nearest-even after every operation, so that an     *)
(* expression such as (loan_amount / num_payments) * num_payments is       *)
(* computed as the interpreter computes it.  Exponents are not bounded     *)
(* (no overflow, no subnormals): the inputs stay far from both.            *)
(***************************************************************************)
EXTENDS Integers, Sequences, FiniteSets, TLC

\* ---------------------------------------------------------------------
\* Natural numbers of arbitrary size: little-endian sequences of limbs in
\* base LimbBase, without high zero limbs (<<>> is 0).
LimbBits == 14
LimbBase == 16384

\* F applied to the value of e: the value is computed once, however often F
\* uses it
Let(e, F(_)) == CHOOSE r \in {F(x) : x \in {e}} : TRUE
Let2(e1, e2, F(_, _)) == CHOOSE r \in {F(x, y) : x \in {e1}, y \in {e2}} : TRUE

Max2(a, b) == IF a >= b THEN a ELSE b
Min2(a, b) == IF a <= b THEN a ELSE b
Limb(a, k) == IF k >= 1 /\ k <= Len(a) THEN a[k] ELSE 0

\* drop the high zero limbs
Trim(a0) ==
    Let(a0, LAMBDA a :
        IF \A k \in 1..Len(a) : a[k] = 0 THEN <<>>
        ELSE SubSeq(a, 1, CHOOSE k \in 1..Len(a) : a[k] # 0 /\ \A j \in (k + 1)..Len(a) : a[j] = 0))

\* the number SUM cols[k] * LimbBase^(k-1) for columns 0 <= cols[k] < LimbBase^3
Carry(cols) ==
    Let(cols \o <<0, 0, 0>>, LAMBDA c :
    Let(SubSeq([k \in 1..Len(c) |-> (c[k] % LimbBase)
                                + (IF k > 1 THEN (c[k - 1] \div LimbBase) % LimbBase ELSE 0)
                                + (IF k > 2 THEN c[k - 2] \div (LimbBase * LimbBase) ELSE 0)], 1, Len(c)),
        LAMBDA s :
    Let(SubSeq([k \in 1..Len(s) |-> (s[k] % LimbBase) + (IF k > 1 THEN s[k - 1] \div LimbBase ELSE 0)],
               1, Len(s)),
        LAMBDA t :
    Let({j \in 1..Len(t) : t[j] >= LimbBase}, LAMBDA gen :
        Trim(SubSeq([k \in 1..Len(t) |->
                       (t[k] + IF \E j \in gen : j < k /\ \A i \in (j + 1)..(k - 1) : t[i] = LimbBase - 1
                               THEN 1 ELSE 0) % LimbBase],
                    1, Len(t)))))))

NFromInt(n) == IF n = 0 THEN <<>>
               ELSE IF n < LimbBase THEN <<n>>
               ELSE Trim(<<n % LimbBase, (n \div LimbBase) % LimbBase, n \div (LimbBase * LimbBase)>>)
NAdd(a0, b0) ==
    Let2(a0, b0, LAMBDA a, b : Carry([k \in 1..Max2(Len(a), Len(b)) |-> Limb(a, k) + Limb(b, k)]))
\* a - b for a >= b
NSub(a0, b0) ==
    Let2(a0, b0, LAMBDA a, b :
    Let(SubSeq([k \in 1..Len(a) |-> a[k] - Limb(b, k)], 1, Len(a)), LAMBDA d :
    Let({j \in 1..Len(a) : d[j] < 0}, LAMBDA neg :
        Trim(SubSeq([k \in 1..Len(a) |->
                       (d[k] - (IF \E j \in neg : j < k /\ \A i \in (j + 1)..(k - 1) : d[i] <= 0
                                THEN 1 ELSE 0)) % LimbBase],
                    1, Len(a))))))

\* -1, 0, 1 as a < b, a = b, a > b
NCmp(a0, b0) ==
    Let2(a0, b0, LAMBDA a, b :
        IF Len(a) # Len(b) THEN (IF Len(a) > Len(b) THEN 1 ELSE -1)
        ELSE IF a = b THEN 0
        ELSE Let(CHOOSE i \in 1..Len(a) : a[i] # b[i] /\ \A j \in (i + 1)..Len(a) : a[j] = b[j],
                 LAMBDA k : IF a[k] > b[k] THEN 1 ELSE -1))

\* a * b where b has at most 4 limbs (a 53-bit significand)
NMul(a0, b0) ==
    Let2(a0, b0, LAMBDA a, b :
        IF a = <<>> \/ b = <<>> THEN <<>>
        ELSE Let2(<<0, 0, 0>> \o a \o <<0, 0, 0>>, b \o <<0, 0, 0>>, LAMBDA ap, bp :
                 Carry([k \in 1..(Len(a) + 3) |->
                          ap[k + 3] * bp[1] + ap[k + 2] * bp[2] + ap[k + 1] * bp[3] + ap[k] * bp[4]])))

\* a * 2^n
NShl(a0, n0) ==
    Let2(a0, n0, LAMBDA a, n :
        IF a = <<>> THEN a
        ELSE IF n % LimbBits = 0 THEN [k \in 1..(n \div LimbBits) |-> 0] \o a
        ELSE [k \in 1..(n \div LimbBits) |-> 0]
             \o Carry([k \in 1..Len(a) |-> a[k] * (2 ^ (n % LimbBits))]))

\* floor(a / 2^n)
NShr(a0, n0) ==
    Let2(a0, n0, LAMBDA a, n :
    Let2(n \div LimbBits, n % LimbBits, LAMBDA q, r :
        IF q >= Len(a) THEN <<>>
        ELSE Trim(SubSeq([k \in 1..(Len(a) - q) |->
                            (a[k + q] \div (2 ^ r)) + (Limb(a, k + q + 1) % (2 ^ r)) * (2 ^ (LimbBits - r))],
                         1, Len(a) - q))))

BitLen(a0) ==
    Let(a0, LAMBDA a :
        IF a = <<>> THEN 0
        ELSE LimbBits * (Len(a) - 1)
             + (CHOOSE n \in 1..LimbBits : 2 ^ (n - 1) <= a[Len(a)] /\ a[Len(a)] < 2 ^ n))

\* bit n (0 = lowest) of a
Bit(a, n) == (Limb(a, (n \div LimbBits) + 1) \div (2 ^ (n % LimbBits))) % 2
\* are the n lowest bits of a all zero
LowZero(a, n) == /\ \A k \in 1..Min2(n \div LimbBits, Len(a)) : a[k] = 0
                 /\ Limb(a, (n \div LimbBits) + 1) % (2 ^ (n % LimbBits)) = 0

\* number of trailing zero bits of a # 0
TrailingZeros(a0) ==
    Let(a0, LAMBDA a :
    Let(CHOOSE j \in 1..Len(a) : a[j] # 0 /\ \A i \in 1..(j - 1) : a[i] = 0, LAMBDA k :
        LimbBits * (k - 1) + (CHOOSE n \in 0..(LimbBits - 1) : a[k] % (2 ^ (n + 1)) = 2 ^ n)))

RECURSIVE NPow(_, _)
NPow(a, n) == IF n = 0 THEN <<1>> ELSE NMul(NPow(a, n - 1), a)

\* one step of long division of r by d, for r < d * LimbBase, where d has 4
\* limbs and its top bit set: the quotient limb floor(r / d) (the estimate
\* from the top limbs is at most 2 too large) and the remainder moved up one limb
DivStep(r0, d0) ==
    Let2(r0, d0, LAMBDA r, d :
    Let(Min2(LimbBase - 1, (Limb(r, 5) * LimbBase + Limb(r, 4)) \div d[4]), LAMBDA est :
    Let(NMul(d, NFromInt(est)), LAMBDA p0 :
        IF NCmp(p0, r) <= 0 THEN <<est, NShl(NSub(r, p0), LimbBits)>>
        ELSE Let(NSub(p0, d), LAMBDA p1 :
                 IF NCmp(p1, r) <= 0 THEN <<est - 1, NShl(NSub(r, p1), LimbBits)>>
                 ELSE <<est - 2, NShl(NSub(r, NSub(p1, d)), LimbBits)>>))))

\* ---------------------------------------------------------------------
\* IEEE-754 binary64 values (Python float).  A finite value is
\* (-1)^s * m * 2^e with m odd (or zero).
MantBits == 53
Zero == [s |-> 0, m |-> <<>>, e |-> 0]
Canon(s0, m0, e0) ==
    Let2(s0, e0, LAMBDA s, e :
    Let(m0, LAMBDA m :
        IF m = <<>> THEN Zero
        ELSE Let(TrailingZeros(m), LAMBDA tz : [s |-> s, m |-> NShr(m, tz), e |-> e + tz])))
\* round m * 2^e to nearest, ties to even
Round(s0, m0, e0) ==
    Let2(s0, e0, LAMBDA s, e :
    Let(m0, LAMBDA m :
    Let(BitLen(m), LAMBDA len :
        IF len <= MantBits THEN Canon(s, m, e)
        ELSE Let2(len - MantBits, NShr(m, len - MantBits), LAMBDA drop, kept :
                 Canon(s,
                       IF Bit(m, drop - 1) = 1 /\ (~LowZero(m, drop - 1) \/ Bit(kept, 0) = 1)
                       THEN NAdd(kept, <<1>>) ELSE kept,
                       e + drop)))))

FromInt(n) == IF n < 0 THEN Canon(1, NFromInt(-n), 0) ELSE Canon(0, NFromInt(n), 0)
FNeg(x0) == Let(x0, LAMBDA x : IF x.m = <<>> THEN x ELSE [x EXCEPT !.s = 1 - x.s])
FMul(x0, y0) == Let2(x0, y0, LAMBDA x, y : Round((x.s + y.s) % 2, NMul(x.m, y.m), x.e + y.e))
FAdd(x0, y0) ==
    Let2(x0, y0, LAMBDA x, y :
        IF x.m = <<>> THEN y
        ELSE IF y.m = <<>> THEN x
        ELSE Let(Min2(x.e, y.e), LAMBDA lo :
             Let2(NShl(x.m, x.e - lo), NShl(y.m, y.e - lo), LAMBDA mx, my :
             Let(NCmp(mx, my), LAMBDA c :
                 IF x.s = y.s THEN Round(x.s, NAdd(mx, my), lo)
                 ELSE IF c = 0 THEN Zero
                 ELSE IF c > 0 THEN Round(x.s, NSub(mx, my), lo)
                 ELSE Round(y.s, NSub(my, mx), lo)))))
FSub(x, y) == FAdd(x, FNeg(y))

\* x / y for y # 0: both significands moved up to 4 limbs, four quotient
\* limbs by long division, and a sticky limb for the remainder
FDiv(x0, y0) ==
    Let2(x0, y0, LAMBDA x, y :
        IF x.m = <<>> THEN Zero
        ELSE Let2(4 * LimbBits - 1 - BitLen(x.m), 4 * LimbBits - BitLen(y.m), LAMBDA shx, shy :
             Let(NShl(y.m, shy), LAMBDA den :
             Let(DivStep(NShl(NShl(x.m, shx), LimbBits), den), LAMBDA s1 :
             Let(DivStep(s1[2], den), LAMBDA s2 :
             Let(DivStep(s2[2], den), LAMBDA s3 :
             Let(DivStep(s3[2], den), LAMBDA s4 :
                 Round((x.s + y.s) % 2,
                       Trim(<<IF s4[2] = <<>> THEN 0 ELSE 1, s4[1], s3[1], s2[1], s1[1]>>),
                       (x.e - shx) - (y.e - shy) - 5 * LimbBits))))))))
\* x ** n for an integer n >= 0, correctly rounded (the C library's pow can
\* be one unit in the last place off on rare arguments)
FPow(x0, n) == Let(x0, LAMBDA x : Round(IF n % 2 = 0 THEN 0 ELSE x.s, NPow(x.m, n), x.e * n))

FSign(x0) == Let(x0, LAMBDA x : IF x.m = <<>> THEN 0 ELSE IF x.s = 1 THEN -1 ELSE 1)
FLt(x, y) == FSign(FSub(x, y)) < 0
FLe(x, y) == FSign(FSub(x, y)) <= 0
FGe(x, y) == FLe(y, x)
FAbs(x) == [x EXCEPT !.s = 0]
\* x * 2^k, exact
Scale(x0, k) == Let(x0, LAMBDA x : IF x.m = <<>> THEN x ELSE [x EXCEPT !.e = x.e + k])

One == FromInt(1)
\* a decimal literal n / 10^d, read as Python and number_input read it
Dec(n, d) == FDiv(FromInt(n), FromInt(10 ^ d))

\* values that are not finite floats
NaN == [nan |-> TRUE]
Inf == [inf |-> TRUE]
ZeroDivisionError == [exc |-> "ZeroDivisionError"]
IsExc(v) == "exc" \in DOMAIN v

\* ---------------------------------------------------------------------
\* The calculators (lines 9-31)

\* a payment that covers the interest of one month only; the properties of
\* calculate_mortgage_payment must tell it from the real one
InterestOnlyPayment(loan_amount, monthly_interest, num_payments) ==
    IF monthly_interest = Zero
    THEN IF num_payments = 0 THEN ZeroDivisionError
         ELSE FDiv(loan_amount, FromInt(num_payments))
    ELSE FMul(loan_amount, monthly_interest)

calculate_mortgage_payment(loan_amount, monthly_interest, num_payments) ==
    IF monthly_interest = Zero
    THEN IF num_payments = 0 THEN ZeroDivisionError
         ELSE FDiv(loan_amount, FromInt(num_payments))
    ELSE Let(FPow(FAdd(One, monthly_interest), num_payments), LAMBDA growth :
             IF FSub(growth, One) = Zero THEN ZeroDivisionError
             ELSE FDiv(FMul(loan_amount, FMul(monthly_interest, growth)), FSub(growth, One)))

\* the series with a whole year of interest charged every month; the
\* properties of CashFlows must tell it from the real one
CashFlowsYearlyInterest(price, rent, total_expenses, loan_amount, loan_term, interest_rate) ==
    Let(FSub(FSub(rent, total_expenses), FMul(loan_amount, interest_rate)),
        LAMBDA monthly : <<FNeg(price)>> \o [k \in 1..(loan_term * 12) |-> monthly])

\* line 17: the list handed to npf.irr
CashFlows(price, rent, total_expenses, loan_amount, loan_term, interest_rate) ==
    Let(FSub(FSub(rent, total_expenses), FMul(loan_amount, FDiv(interest_rate, FromInt(12)))),
        LAMBDA monthly : <<FNeg(price)>> \o [k \in 1..(loan_term * 12) |-> monthly])

\* numpy_financial.irr: the rate that zeroes the net present value of the
\* series, nan when there is none.  The series built on line 17 is one entry
\* followed by equal entries, so a rate exists exactly when it holds both a
\* negative and a positive entry; the rate itself is kept symbolic.
npf_irr(values0) ==
    Let(values0, LAMBDA values :
        IF /\ \E i \in 1..Len(values) : FSign(values[i]) < 0
           /\ \E i \in 1..Len(values) : FSign(values[i]) > 0
        THEN [rate_of |-> values, times |-> 1]
        ELSE NaN)

\* irr * 100 on line 19
TimesHundred(irr0) == Let(irr0, LAMBDA irr : IF irr = NaN THEN NaN ELSE [irr EXCEPT !.times = 100])

\* lines 15-21; nothing in the try block raises for float and int arguments,
\* so the except branch (return 0) is not taken
calculate_irr(price, rent, total_expenses, loan_amount, loan_term, interest_rate) ==
    TimesHundred(npf_irr(CashFlows(price, rent, total_expenses, loan_amount, loan_term, interest_rate)))

\* a payback period that is computed for losses too; the properties of
\* calculate_payback_period must tell it from the real one
PaybackOfNonZero(down_payment, cash_flow) ==
    IF FSign(cash_flow) # 0 THEN FDiv(down_payment, cash_flow) ELSE Inf

calculate_payback_period(down_payment, cash_flow) ==
    IF FSign(cash_flow) > 0 THEN FDiv(down_payment, cash_flow) ELSE Inf

calculate_tax_benefits(depreciation, interest_deduction) == FAdd(depreciation, interest_deduction)

\* ---------------------------------------------------------------------
\* The state: the widget values, the button whose click started the run of
\* main() in progress, what the last run computed and wrote, the last direct
\* call of a calculator, and a remembered earlier run.
VARIABLES widgets, pressed, result, call, memo
vars == <<widgets, pressed, result, call, memo>>

\* the key= arguments of the three buttons
Buttons == {"calc_metrics", "calc_scenario", "sensitivity_analysis"}
Nothing == [kind |-> "none"]
NoCall == [fn |-> "none"]

\* ---------------------------------------------------------------------
\* main(): the widgets (lines 43-53 and 110-111).  The number inputs return
\* floats, loan_term and num_units ints, the two sliders ints.

MaxTerm == 1

\* the values the user picks from
Choices ==
    [property_price     |-> {FromInt(0), FromInt(100000)},
     rent_income        |-> {FromInt(0), FromInt(300), FromInt(1000)},
     operating_expenses |-> {FromInt(200)},
     property_tax       |-> {FromInt(1200)},
     loan_amount        |-> {FromInt(0), FromInt(80000)},
     down_payment       |-> {FromInt(0), FromInt(20000)},
     interest_rate      |-> {FromInt(0), FromInt(5)},
     loan_term          |-> 1..MaxTerm,
     num_units          |-> {1},
     depreciation       |-> {FromInt(5000)},
     interest_deduction |-> {FromInt(4000)},
     adjusted_rent      |-> {1000},
     adjusted_expenses  |-> {200}]

\* fewer values of more widgets, for the runs that remember an earlier result
RepeatChoices ==
    [property_price     |-> {FromInt(100000)},
     rent_income        |-> {FromInt(300), FromInt(1000)},
     operating_expenses |-> {FromInt(200)},
     property_tax       |-> {FromInt(1200)},
     loan_amount        |-> {FromInt(80000)},
     down_payment       |-> {FromInt(20000)},
     interest_rate      |-> {FromInt(5)},
     loan_term          |-> {1},
     num_units          |-> {1},
     depreciation       |-> {FromInt(5000)},
     interest_deduction |-> {FromInt(4000)},
     adjusted_rent      |-> {0, 1000},
     adjusted_expenses  |-> {200}]

\* the widgets' value= arguments
Defaults ==
    [property_price |-> FromInt(100000), rent_income |-> FromInt(1000),
     operating_expenses |-> FromInt(200), property_tax |-> FromInt(1200),
     loan_amount |-> FromInt(80000), down_payment |-> FromInt(20000),
     interest_rate |-> FromInt(5), loan_term |-> 30, num_units |-> 1,
     depreciation |-> FromInt(5000), interest_deduction |-> FromInt(4000),
     adjusted_rent |-> 1000, adjusted_expenses |-> 200]

\* np.linspace(start, stop, 5): start + i * step, the last point set to stop
Linspace(start0, stop0) ==
    Let2(start0, stop0, LAMBDA start, stop :
    Let(FDiv(FSub(stop, start), FromInt(4)), LAMBDA step :
        <<FAdd(FMul(FromInt(0), step), start), FAdd(FMul(FromInt(1), step), start),
          FAdd(FMul(FromInt(2), step), start), FAdd(FMul(FromInt(3), step), start), stop>>))

\* lines 62-74
KeyFigures(w) ==
    Let2(FMul(w.rent_income, FromInt(12)), FMul(w.operating_expenses, FromInt(12)), LAMBDA rent, expenses :
    Let2(FDiv(FDiv(w.interest_rate, FromInt(100)), FromInt(12)), w.loan_term * 12,
         LAMBDA monthly_interest, num_payments :
    Let(calculate_mortgage_payment(w.loan_amount, monthly_interest, num_payments), LAMBDA mortgage_payment :
        IF IsExc(mortgage_payment) THEN [error |-> mortgage_payment.exc]
        ELSE Let2(FMul(mortgage_payment, FromInt(12)), FAdd(expenses, w.property_tax),
                  LAMBDA annual_debt_service, total_expenses :
             Let(FSub(rent, total_expenses), LAMBDA noi :
                 [rent |-> rent, expenses |-> expenses, monthly_interest |-> monthly_interest,
                  num_payments |-> num_payments, mortgage_payment |-> mortgage_payment,
                  annual_debt_service |-> annual_debt_service, total_expenses |-> total_expenses,
                  noi |-> noi, cash_flow |-> FSub(noi, annual_debt_service)])))))

\* a ratio that is not a number when its denominator is not positive; the
\* properties of IfPositive must tell it from the real one
IfPositiveElseNaN(denominator, ratio) == IF FSign(denominator) > 0 THEN ratio ELSE NaN

\* "ratio if denominator > 0 else 0" of lines 75-79
IfPositive(denominator, ratio) == IF FSign(denominator) > 0 THEN ratio ELSE Zero

\* lines 75-80
Ratios(w, k) ==
    [cap_rate |-> IfPositive(w.property_price, FMul(FDiv(k.noi, w.property_price), FromInt(100))),
     dcr |-> IfPositive(k.annual_debt_service, FDiv(k.noi, k.annual_debt_service)),
     cash_on_cash_return |-> IfPositive(w.down_payment,
                                        FMul(FDiv(k.cash_flow, w.down_payment), FromInt(100))),
     ltv |-> IfPositive(w.property_price, FMul(FDiv(w.loan_amount, w.property_price), FromInt(100))),
     opex_ratio |-> IfPositive(k.rent, FMul(FDiv(k.total_expenses, k.rent), FromInt(100))),
     cash_flow_per_unit |-> IF w.num_units > 0 THEN FDiv(k.cash_flow, FromInt(w.num_units)) ELSE Zero]

\* lines 83-86 and the payback line written on line 98
Advanced(w, k) ==
    Let(calculate_payback_period(w.down_payment, k.cash_flow), LAMBDA payback_period :
        [irr |-> calculate_irr(w.property_price, k.rent, k.total_expenses, w.loan_amount,
                               w.loan_term, FDiv(w.interest_rate, FromInt(100))),
         cash_flows |-> CashFlows(w.property_price, k.rent, k.total_expenses, w.loan_amount,
                                  w.loan_term, FDiv(w.interest_rate, FromInt(100))),
         payback_period |-> payback_period,
         tax_benefits |-> calculate_tax_benefits(w.depreciation, w.interest_deduction),
         break_even_rent |-> IF w.num_units > 0
                             THEN FDiv(FDiv(FAdd(k.total_expenses, k.annual_debt_service),
                                            FromInt(w.num_units)), FromInt(12))
                             ELSE Zero,
         payback_written |-> IF FSign(k.cash_flow) <= 0 THEN [text |-> "Not Applicable"]
                             ELSE [text |-> "years", value |-> payback_period]])

\* lines 59-105: what the Analysis Results tab computes and writes
AnalysisResults(w) ==
    Let(KeyFigures(w), LAMBDA k :
        IF "error" \in DOMAIN k THEN [kind |-> "calc_metrics", error |-> k.error]
        ELSE [kind |-> "calc_metrics"] @@ k @@ Ratios(w, k) @@ Advanced(w, k))

\* a cell that takes off one month of debt service only; the properties of
\* HeatmapCell must tell it from the real one
HeatmapCellMonthlyDebt(rent, expenses, property_tax, annual_debt_service) ==
    FSub(FSub(FMul(rent, FromInt(12)), FAdd(FMul(expenses, FromInt(12)), property_tax)),
         FDiv(annual_debt_service, FromInt(12)))

\* lines 135-137
HeatmapCell(rent, expenses, property_tax, annual_debt_service) ==
    FSub(FSub(FMul(rent, FromInt(12)), FAdd(FMul(expenses, FromInt(12)), property_tax)),
         annual_debt_service)

\* lines 132-138: heatmap_data[i][j] for the i-th rent and the j-th expense
HeatmapData(rent_values, expense_values, property_tax, annual_debt_service) ==
    [i \in 1..5 |->
        [j \in 1..5 |-> HeatmapCell(rent_values[i], expense_values[j], property_tax, annual_debt_service)]
        \o <<>>] \o <<>>

\* lines 114-152
ScenarioResults(w) ==
    Let2(FromInt(w.adjusted_rent * 12), FromInt(w.adjusted_expenses * 12),
         LAMBDA adjusted_annual_rent, adjusted_annual_expenses :
    Let2(FDiv(FDiv(w.interest_rate, FromInt(100)), FromInt(12)), w.loan_term * 12,
         LAMBDA monthly_interest, num_payments :
    Let(calculate_mortgage_payment(w.loan_amount, monthly_interest, num_payments), LAMBDA mortgage_payment :
        IF IsExc(mortgage_payment) THEN [kind |-> "calc_scenario", error |-> mortgage_payment.exc]
        ELSE Let2(FMul(mortgage_payment, FromInt(12)),
                  FSub(adjusted_annual_rent, FAdd(adjusted_annual_expenses, w.property_tax)),
                  LAMBDA annual_debt_service, adjusted_noi :
             Let2(Linspace(FMul(FromInt(w.adjusted_rent), Dec(8, 1)),
                           FMul(FromInt(w.adjusted_rent), Dec(12, 1))),
                  Linspace(FMul(FromInt(w.adjusted_expenses), Dec(8, 1)),
                           FMul(FromInt(w.adjusted_expenses), Dec(12, 1))),
                  LAMBDA rent_values, expense_values :
                 [kind |-> "calc_scenario",
                  mortgage_payment |-> mortgage_payment,
                  annual_debt_service |-> annual_debt_service,
                  adjusted_noi |-> adjusted_noi,
                  adjusted_cash_flow |-> FSub(adjusted_noi, annual_debt_service),
                  rent_values |-> rent_values,
                  expense_values |-> expense_values,
                  heatmap_data |-> HeatmapData(rent_values, expense_values, w.property_tax,
                                               annual_debt_service)])))))

\* the rent axis of the scenario analysis (rent_values of line 128, around
\* the slider) in the place of that of line 158; the properties of RentValues
\* must tell it from the real one
RentValuesOfScenario(w) ==
    Linspace(FMul(FromInt(w.adjusted_rent), Dec(8, 1)), FMul(FromInt(w.adjusted_rent), Dec(12, 1)))

\* lines 157-158
InterestRates(w) == Linspace(FSub(w.interest_rate, FromInt(2)), FAdd(w.interest_rate, FromInt(2)))
RentValues(w) == Linspace(FMul(w.rent_income, Dec(8, 1)), FMul(w.rent_income, Dec(12, 1)))

\* a call that keeps the baseline rate at every grid point; the properties
\* of PaymentCall must tell it from the real one
PaymentCallAtBaseline(w, rate) ==
    <<w.loan_amount, FDiv(FDiv(w.interest_rate, FromInt(100)), FromInt(12)), w.loan_term * 12>>

\* the arguments of the call on line 168
PaymentCall(w, rate) == <<w.loan_amount, FDiv(FDiv(rate, FromInt(100)), FromInt(12)), w.loan_term * 12>>

\* lines 166-172: one pass of the inner loop, the row it appends, with the
\* arguments of its call on line 168
SensitivityRow(w, rate, rent) ==
    Let2(FMul(rent, FromInt(12)), FAdd(FMul(w.operating_expenses, FromInt(12)), w.property_tax),
         LAMBDA adjusted_rent, total_expenses :
    Let(PaymentCall(w, rate), LAMBDA args :
    Let2(calculate_mortgage_payment(args[1], args[2], args[3]), FSub(adjusted_rent, total_expenses),
         LAMBDA mortgage_payment, noi :
        IF IsExc(mortgage_payment) THEN mortgage_payment
        ELSE [rate |-> rate, rent |-> rent, noi |-> noi,
              cash_flow |-> FSub(noi, FMul(mortgage_payment, FromInt(12))),
              call |-> args])))

\* lines 161-182: the rows in loop order, and the calls made on line 168
SensitivityResults(w) ==
    Let2(InterestRates(w), RentValues(w), LAMBDA interest_rates, rent_values :
    Let([n \in 1..25 |->
            SensitivityRow(w, interest_rates[((n - 1) \div 5) + 1], rent_values[((n - 1) % 5) + 1])] \o <<>>,
        LAMBDA rows :
        IF \E n \in 1..25 : IsExc(rows[n])
        THEN [kind |-> "sensitivity_analysis",
              error |-> rows[CHOOSE n \in 1..25 : IsExc(rows[n]) /\ \A i \in 1..(n - 1) : ~IsExc(rows[i])].exc]
        ELSE [kind |-> "sensitivity_analysis",
              sensitivity_data |-> [n \in 1..25 |-> [f \in {"rate", "rent", "noi", "cash_flow"} |-> rows[n][f]]],
              calls |-> [n \in 1..25 |-> rows[n].call]]))

\* the widgets each block reads
Reads(kind) ==
    IF kind = "calc_metrics"
    THEN {"property_price", "rent_income", "operating_expenses", "property_tax", "loan_amount",
          "down_payment", "interest_rate", "loan_term", "num_units", "depreciation",
          "interest_deduction"}
    ELSE IF kind = "calc_scenario"
    THEN {"adjusted_rent", "adjusted_expenses", "interest_rate", "loan_term", "loan_amount",
          "property_tax"}
    ELSE {"interest_rate", "rent_income", "operating_expenses", "property_tax", "loan_amount",
          "loan_term"}

\* ---------------------------------------------------------------------
\* The session
WidgetStates(choices) ==
    [property_price : choices.property_price, rent_income : choices.rent_income,
     operating_expenses : choices.operating_expenses, property_tax : choices.property_tax,
     loan_amount : choices.loan_amount, down_payment : choices.down_payment,
     interest_rate : choices.interest_rate, loan_term : choices.loan_term,
     num_units : choices.num_units, depreciation : choices.depreciation,
     interest_deduction : choices.interest_deduction,
     adjusted_rent : choices.adjusted_rent, adjusted_expenses : choices.adjusted_expenses]

Init ==
    /\ widgets \in WidgetStates(Choices)
    /\ pressed = "none"
    /\ result = Nothing
    /\ call = NoCall
    /\ memo = Nothing

\* the user changes one widget (a slider is moved freely, whatever value it
\* started at); main() reruns with no button pressed
Edit(choices) ==
    /\ pressed = "none"
    /\ \E f \in DOMAIN choices : \E v \in choices[f] : v # widgets[f] /\ widgets' = [widgets EXCEPT ![f] = v]
    /\ result' = Nothing
    /\ UNCHANGED <<pressed, call, memo>>

EditWidget == Edit(Choices)

\* the user clicks a button: main() starts again on an empty page, and
\* st.button returns True for that button in this run
Click ==
    /\ pressed = "none"
    /\ \E button \in Buttons : pressed' = button
    /\ result' = Nothing
    /\ UNCHANGED <<widgets, call, memo>>

\* line 59: if calculate_metrics_button
CalculateMetrics ==
    /\ pressed = "calc_metrics"
    /\ result' = AnalysisResults(widgets)
    /\ pressed' = "none"
    /\ UNCHANGED <<widgets, call, memo>>

\* line 114: if calculate_scenario_metrics_button
CalculateScenarioMetrics ==
    /\ pressed = "calc_scenario"
    /\ result' = ScenarioResults(widgets)
    /\ pressed' = "none"
    /\ UNCHANGED <<widgets, call, memo>>

\* line 161: if perform_sensitivity_analysis_button
PerformSensitivityAnalysis ==
    /\ pressed = "sensitivity_analysis"
    /\ result' = SensitivityResults(widgets)
    /\ pressed' = "none"
    /\ UNCHANGED <<widgets, call, memo>>

Next == EditWidget \/ Click \/ CalculateMetrics \/ CalculateScenarioMetrics \/ PerformSensitivityAnalysis
Spec == Init /\ [][Next]_vars

\* ---------------------------------------------------------------------
\* The same session with an observer that keeps one earlier run to compare
\* later runs with.
InitRepeat ==
    /\ widgets \in WidgetStates(RepeatChoices)
    /\ pressed = "none"
    /\ result = Nothing
    /\ call = NoCall
    /\ memo = Nothing

EditRepeat == Edit(RepeatChoices)

Remember ==
    /\ memo = Nothing
    /\ result.kind # "none"
    /\ memo' = [kind |-> result.kind, widgets |-> widgets, result |-> result]
    /\ UNCHANGED <<widgets, pressed, result, call>>

NextRepeat == EditRepeat \/ Click \/ CalculateMetrics \/ CalculateScenarioMetrics
              \/ PerformSensitivityAnalysis \/ Remember
SpecRepeat == InitRepeat /\ [][NextRepeat]_vars

\* ---------------------------------------------------------------------
\* The calculators called directly, with arguments no widget has checked.
MaxPayments == 12

LoanAmounts == {FromInt(-1000), FromInt(0), FromInt(1000), FromInt(100000)}
MonthlyRates == {FDiv(FDiv(FromInt(p), FromInt(100)), FromInt(12)) : p \in {-1, 0, 1, 5}}

InitCalls ==
    /\ widgets = Defaults
    /\ pressed = "none"
    /\ result = Nothing
    /\ call = NoCall
    /\ memo = Nothing

CallMortgagePayment ==
    /\ call = NoCall
    /\ \E loan_amount \in LoanAmounts, monthly_interest \in MonthlyRates, num_payments \in 0..MaxPayments :
          call' = [fn |-> "calculate_mortgage_payment",
                   loan_amount |-> loan_amount, monthly_interest |-> monthly_interest,
                   num_payments |-> num_payments,
                   ret |-> calculate_mortgage_payment(loan_amount, monthly_interest, num_payments)]
    /\ UNCHANGED <<widgets, pressed, result, memo>>

CallIrr ==
    /\ call = NoCall
    /\ \E price \in {FromInt(0), FromInt(100000)}, rent \in {FromInt(0), FromInt(12000)},
          total_expenses \in {FromInt(3600)}, loan_amount \in {FromInt(0), FromInt(80000)},
          loan_term \in 0..MaxTerm, interest_rate \in {FromInt(0), Dec(5, 2)} :
          call' = [fn |-> "calculate_irr",
                   price |-> price, rent |-> rent, total_expenses |-> total_expenses,
                   loan_amount |-> loan_amount, loan_term |-> loan_term, interest_rate |-> interest_rate,
                   cash_flows |-> CashFlows(price, rent, total_expenses, loan_amount, loan_term, interest_rate),
                   ret |-> calculate_irr(price, rent, total_expenses, loan_amount, loan_term, interest_rate)]
    /\ UNCHANGED <<widgets, pressed, result, memo>>

CallPaybackPeriod ==
    /\ call = NoCall
    /\ \E down_payment \in {FromInt(-20000), FromInt(0), FromInt(20000)},
          cash_flow \in {FromInt(-2000), FromInt(0), FromInt(2000)} :
          call' = [fn |-> "calculate_payback_period",
                   down_payment |-> down_payment, cash_flow |-> cash_flow,
                   ret |-> calculate_payback_period(down_payment, cash_flow)]
    /\ UNCHANGED <<widgets, pressed, result, memo>>

CallTaxBenefits ==
    /\ call = NoCall
    /\ \E depreciation \in {FromInt(-5000), FromInt(0), FromInt(5000)},
          interest_deduction \in {FromInt(0), FromInt(4000)} :
          call' = [fn |-> "calculate_tax_benefits",
                   depreciation |-> depreciation, interest_deduction |-> interest_deduction,
                   ret |-> calculate_tax_benefits(depreciation, interest_deduction)]
    /\ UNCHANGED <<widgets, pressed, result, memo>>

\* the caller has its value and is ready for the next call
Return ==
    /\ call # NoCall
    /\ call' = NoCall
    /\ UNCHANGED <<widgets, pressed, result, memo>>

NextCalls == CallMortgagePayment \/ CallIrr \/ CallPaybackPeriod \/ CallTaxBenefits \/ Return
SpecCalls == InitCalls /\ [][NextCalls]_vars

\* ---------------------------------------------------------------------
\* Properties

\* the product payment * n as the interpreter computes it
PaidInTotal == FMul(call.ret, FromInt(call.num_payments))
ValidPaymentCall ==
    /\ call.fn = "calculate_mortgage_payment"
    /\ FSign(call.loan_amount) >= 0
    /\ FSign(call.monthly_interest) >= 0
    /\ call.num_payments >= 1

\* C1: calculate_irr returns a finite percentage, and 0 whenever no rate
\* exists for the series (npf.irr finds none).
C1_IrrFiniteZeroWithoutRoot ==
    call.fn = "calculate_irr" =>
        /\ call.ret # NaN
        /\ (npf_irr(call.cash_flows) = NaN => call.ret = Zero)

\* C2: a call with a negative amount, a negative rate or a number of payments
\* below 1 is rejected with an invalid-input error; no value comes back and no
\* other error is raised.
C2_InvalidInputRejected ==
    (/\ call.fn = "calculate_mortgage_payment"
     /\ (FSign(call.loan_amount) < 0 \/ FSign(call.monthly_interest) < 0 \/ call.num_payments < 1))
    => call.ret = [exc |-> "InvalidInput"]

\* C3: in the metrics every one of cap rate, loan-to-value, operating expense
\* ratio, debt coverage ratio and cash-on-cash return is exactly 0 when its
\* own denominator is 0, and no error is reported.
C3_ZeroDenominatorGivesZero ==
    result.kind = "calc_metrics" =>
        /\ "error" \notin DOMAIN result
        /\ (widgets.property_price = Zero => result.cap_rate = Zero /\ result.ltv = Zero)
        /\ (result.rent = Zero => result.opex_ratio = Zero)
        /\ (result.annual_debt_service = Zero => result.dcr = Zero)
        /\ (widgets.down_payment = Zero => result.cash_on_cash_return = Zero)
C3_Witness ==
    /\ result.kind = "calc_metrics"
    /\ widgets.property_price = Zero /\ result.rent = Zero
    /\ result.annual_debt_service = Zero /\ widgets.down_payment = Zero
    /\ result.cap_rate = Zero /\ result.dcr = Zero

C5_SweepMatchesMetrics ==
    result.kind = "sensitivity_analysis" =>
        /\ "error" \notin DOMAIN result
        /\ DOMAIN result.sensitivity_data = 1..25
        /\ \A i \in 1..5 : \A j \in 1..5 :
              Let2(InterestRates(widgets)[i], RentValues(widgets)[j], LAMBDA rate, rent :
              Let2(result.sensitivity_data[5 * (i - 1) + j],
                   KeyFigures([widgets EXCEPT !.interest_rate = rate, !.rent_income = rent]),
                   LAMBDA row, direct :
                  /\ row.rate = rate /\ row.rent = rent
                  /\ row.noi = direct.noi /\ row.cash_flow = direct.cash_flow))
C5_Witness ==
    /\ result.kind = "sensitivity_analysis"
    /\ FSign(widgets.loan_amount) > 0 /\ FSign(widgets.interest_rate) > 0
    /\ Len(result.sensitivity_data) = 25
    /\ result.sensitivity_data[1].cash_flow # result.sensitivity_data[21].cash_flow

\* C6: the heatmap holds the cash flow of all 25 pairs of 5 rents from 0.8 to
\* 1.2 times the adjusted rent and 5 expenses from 0.8 to 1.2 times the
\* adjusted expenses, and every cell takes off the same annual debt service,
\* that of the scenario's own mortgage payment.
C6_HeatmapKeepsDebtService ==
    (result.kind = "calc_scenario" /\ "error" \notin DOMAIN result) =>
        /\ Len(result.rent_values) = 5 /\ Len(result.expense_values) = 5
        /\ result.rent_values[1] = FMul(FromInt(widgets.adjusted_rent), Dec(8, 1))
        /\ result.rent_values[5] = FMul(FromInt(widgets.adjusted_rent), Dec(12, 1))
        /\ result.expense_values[1] = FMul(FromInt(widgets.adjusted_expenses), Dec(8, 1))
        /\ result.expense_values[5] = FMul(FromInt(widgets.adjusted_expenses), Dec(12, 1))
        /\ result.annual_debt_service
              = FMul(calculate_mortgage_payment(widgets.loan_amount,
                                                FDiv(FDiv(widgets.interest_rate, FromInt(100)), FromInt(12)),
                                                widgets.loan_term * 12),
                     FromInt(12))
        /\ \A i \in 1..5 : \A j \in 1..5 :
              result.heatmap_data[i][j]
                 = FSub(FSub(FMul(result.rent_values[i], FromInt(12)),
                             FAdd(FMul(result.expense_values[j], FromInt(12)), widgets.property_tax)),
                        result.annual_debt_service)
C6_Witness ==
    /\ result.kind = "calc_scenario"
    /\ FSign(result.annual_debt_service) > 0
    /\ result.heatmap_data[1][5] # result.heatmap_data[5][1]

\* C7: the payback period is infinite when the annual cash flow is 0 or less
\* and down_payment / cash_flow when it is more, and the page says
\* 'Not Applicable' exactly when the payback period is infinite.
C7_PaybackPeriod ==
    (result.kind = "calc_metrics" /\ "error" \notin DOMAIN result) =>
        /\ (FSign(result.cash_flow) <= 0 => result.payback_period = Inf)
        /\ (FSign(result.cash_flow) > 0 =>
               result.payback_period = FDiv(widgets.down_payment, result.cash_flow))
        /\ (result.payback_written.text = "Not Applicable" <=> result.payback_period = Inf)
C7_Witness ==
    /\ result.kind = "calc_metrics"
    /\ FSign(result.cash_flow) < 0
    /\ result.payback_period = Inf
    /\ result.payback_written.text = "Not Applicable"

\* C8: a calculation leaves the widget values as they are, and it writes what
\* an earlier calculation of the same kind wrote for the same values of the
\* widgets it reads, whatever was calculated in between.
C8_SameInputsSameResult ==
    [][(result'.kind # "none" /\ memo' = memo) =>
          /\ widgets' = widgets
          /\ ((/\ memo.kind = result'.kind
               /\ \A f \in Reads(memo.kind) : memo.widgets[f] = widgets[f])
              => result' = memo.result)]_vars
C8_Witness ==
    /\ memo.kind = "sensitivity_analysis"
    /\ result = memo.result
    /\ memo.widgets.adjusted_rent # widgets.adjusted_rent

\* C9: every call of calculate_mortgage_payment made by the sensitivity
\* analysis passes a monthly rate of 0 or more and a number of payments of 1
\* or more.
C9_SweepCallsAreValid ==
    (result.kind = "sensitivity_analysis" /\ "error" \notin DOMAIN result) =>
        \A n \in 1..25 : FSign(result.calls[n][2]) >= 0 /\ result.calls[n][3] >= 1

\* C10: the series handed to npf.irr has 1 + loan_term * 12 entries, the
\* first is -price and every other one is annual rent - annual expenses -
\* loan_amount * (rate / 12) with rate the interest rate input divided by 100.
C10_CashFlowSeries ==
    (result.kind = "calc_metrics" /\ "error" \notin DOMAIN result) =>
        /\ Len(result.cash_flows) = 1 + widgets.loan_term * 12
        /\ result.cash_flows[1] = FNeg(widgets.property_price)
        /\ Let(FSub(FSub(FMul(widgets.rent_income, FromInt(12)),
                         FAdd(FMul(widgets.operating_expenses, FromInt(12)), widgets.property_tax)),
                    FMul(widgets.loan_amount, FDiv(FDiv(widgets.interest_rate, FromInt(100)), FromInt(12)))),
               LAMBDA each : \A n \in 2..(1 + widgets.loan_term * 12) : result.cash_flows[n] = each)
C10_Witness ==
    /\ result.kind = "calc_metrics"
    /\ FSign(widgets.loan_amount) > 0 /\ FSign(widgets.interest_rate) > 0
    /\ Len(result.cash_flows) = 13
    /\ result.cash_flows[13] # FSub(result.rent, result.total_expenses)
    /\ result.cash_flows[13] # FSub(FSub(result.rent, result.total_expenses), result.mortgage_payment)
====
